---- MODULE Spec2Model ----
(***************************************************************************)
(* Model of the Involve -> ICS harvesting and publishing pipeline          *)
(* (scripts/scrape-and-build-ics.mjs with scripts/config.mjs).             *)
(*                                                                         *)
(* Instants are integers counting minutes (the encoder's resolution).      *)
(* Strings are sequences of one-character strings.  A JSON value is a      *)
(* tagged record: "undef", "null", "bool", "num", "str" (a string that is  *)
(* not an ISO-8601 timestamp), "iso" (a string spelling the instant ts in  *)
(* ISO-8601), "obj" (a mapping of keys to values) and "arr".               *)
(***************************************************************************)
EXTENDS Integers, Sequences, FiniteSets, TLC

VARIABLES
    pc,         \* position of the main flow of the run
    outcome,    \* "running", or how the run ended: "ok", "page", "sanity", "validation"
    expired,    \* Date.now() >= watchdogEnds
    captured,   \* the capture accumulation (payloads pushed by the response callback)
    stale,      \* let stale
    lastCount,  \* let lastCount
    iterations, \* let iterations
    count,      \* const { count } = coverage() of the current loop iteration
    events,     \* let events (deduplicated, window-filtered)
    icsText,    \* the value createEvents produced in this run
    primary,    \* file at cfg.outputPath
    jsonDump,   \* file at cfg.outputJsonPath
    lastGood,   \* file at cfg.sanity.lastGoodPath
    forwardStepped, \* history: clickWeekNav(page, "next") was called in this run
    backwardStepped, \* history: clickWeekNav(page, "prev") was called in this run
    noGain,     \* history: consecutive successful movements of this phase that added no event
    lastStep,   \* history: how the last navigation step went: "none" (no step yet),
                \* "unmoved", "moved" (settle still to run), "settled"
    atStart,    \* history: the three files as they were when the run started
    raw,        \* input of the function applied on its own (normaliseFromJSON, parseWhen)
    normOut,    \* its result
    click       \* the call of clickWeekNav taken on its own

vars == <<pc, outcome, expired, captured, stale, lastCount, iterations, count,
          events, icsText, primary, jsonDump, lastGood, forwardStepped,
          backwardStepped, noGain, lastStep, atStart, raw, normOut, click>>

----------------------------------------------------------------------------
(* Time and configuration *)

Hour == 60
Day == 1440

\* cfg.windowDays of scripts/config.mjs
WindowDays == 31
\* cfg.sanity.minEvents
MinEvents == 1
\* cfg.sanity.protectLastGood
ProtectLastGood == TRUE

\* cfg.timeZone is Europe/London: the runs modelled happen in summer time,
\* local time is UTC + 1 hour throughout the window
ZoneOffset == 60

\* DateTime.now().setZone(tz).startOf("day"), the day the run happens
\* (cfg.startDate is blank): local midnight of a day
Today == 10 * Day - ZoneOffset

\* windowBounds()
windowBounds == [start |-> Today, end |-> Today + WindowDays * Day]

----------------------------------------------------------------------------
(* JSON values *)

Undefined == [t |-> "undef"]
Null == [t |-> "null"]
Bool(b) == [t |-> "bool", b |-> b]
Num(n) == [t |-> "num", n |-> n]
Str(s) == [t |-> "str", s |-> s]
Iso(ts) == [t |-> "iso", ts |-> ts]
Obj(f) == [t |-> "obj", f |-> f]
Arr(a) == [t |-> "arr", a |-> a]

\* JavaScript truthiness of a value
Truthy(v) ==
    CASE v.t = "undef" -> FALSE
      [] v.t = "null" -> FALSE
      [] v.t = "bool" -> v.b
      [] v.t = "num" -> v.n # 0
      [] v.t = "str" -> v.s # <<>>
      [] OTHER -> TRUE

\* e.k : property access on a value that is not null or undefined
Get(e, k) == IF e.t = "obj" /\ k \in DOMAIN e.f THEN e.f[k] ELSE Undefined

\* e.k1 || e.k2 || ... || e.kn : the first truthy value, else the last one
RECURSIVE OrChain(_, _)
OrChain(e, keys) ==
    IF Len(keys) = 1 THEN Get(e, keys[1])
    ELSE IF Truthy(Get(e, keys[1])) THEN Get(e, keys[1])
    ELSE OrChain(e, Tail(keys))

\* a || b for a literal b
OrElse(v, d) == IF Truthy(v) THEN v ELSE d

----------------------------------------------------------------------------
(* Strings *)

IsSpace(c) == c = " "

RECURSIVE TrimLeft(_)
TrimLeft(s) == IF s # <<>> /\ IsSpace(Head(s)) THEN TrimLeft(Tail(s)) ELSE s

RECURSIVE TrimRight(_)
TrimRight(s) ==
    IF s # <<>> /\ IsSpace(s[Len(s)]) THEN TrimRight(SubSeq(s, 1, Len(s) - 1)) ELSE s

\* String.prototype.trim
Trim(s) == TrimRight(TrimLeft(s))

RECURSIVE Digits(_)
Digits(n) ==
    IF n < 10 THEN <<ToString(n)>> ELSE Digits(n \div 10) \o <<ToString(n % 10)>>

\* the ISO-8601 text of an instant, as one token
IsoText(ts) == <<"@" \o ToString(ts)>>

\* value.toString() of a truthy value
ToStr(v) ==
    CASE v.t = "str" -> v.s
      [] v.t = "iso" -> IsoText(v.ts)
      [] v.t = "num" -> IF v.n < 0 THEN <<"-">> \o Digits(-v.n) ELSE Digits(v.n)
      [] v.t = "bool" -> <<"t", "r", "u", "e">>
      [] OTHER -> <<"[", "o", "]">>

SchoolEvent == <<"S", "c", "h", "o", "o", "l", " ", "e", "v", "e", "n", "t">>

----------------------------------------------------------------------------
(* luxon DateTime: an instant, or the invalid DateTime *)

Invalid == [valid |-> FALSE, ts |-> 0]
At(ts) == [valid |-> TRUE, ts |-> ts]

\* typeof v === "number" ? DateTime.fromMillis(v) : DateTime.fromISO(String(v))
ParseInstant(v) ==
    CASE v.t = "num" -> At(v.n)
      [] v.t = "iso" -> At(v.ts)
      [] OTHER -> Invalid

\* a < b, a <= b, a > b on DateTimes: valueOf() is NaN for the invalid DateTime
\* and every comparison with NaN is false
DtLt(a, b) == a.valid /\ b.valid /\ a.ts < b.ts
DtLe(a, b) == a.valid /\ b.valid /\ a.ts <= b.ts
DtGt(a, b) == a.valid /\ b.valid /\ a.ts > b.ts
DtGe(a, b) == a.valid /\ b.valid /\ a.ts >= b.ts

\* dt.plus({minutes: m})
Plus(dt, m) == IF dt.valid THEN At(dt.ts + m) ELSE dt

----------------------------------------------------------------------------
(* Raw Event Normalizer *)

StartKeys == <<"start", "starts_at", "start_date", "startDate", "startsAt",
               "starts", "start_time", "dtstart">>
EndKeys == <<"end", "ends_at", "end_date", "endDate", "endsAt",
             "ends", "end_time", "dtend">>

\* the array normaliseFromJSON iterates over
PayloadArray(r) ==
    IF Get(r, "events").t = "arr" THEN Get(r, "events").a
    ELSE IF Get(r, "data").t = "arr" THEN Get(r, "data").a
    ELSE IF r.t = "arr" THEN r.a
    ELSE <<>>

\* reading a property of null or undefined raises a TypeError
Throws(e) == e.t \in {"null", "undef"}

\* if (!end) end = start + 1 h; if (end <= start) end = start + 30 min
DefaultEnd(start, end0) == IF end0 = Null THEN Plus(start, Hour) ELSE end0
\* the repair with < in place of <=
RepairEndStrict(start, end1) == IF DtLt(end1, start) THEN Plus(start, 30) ELSE end1
RepairEnd(start, end1) == IF DtLe(end1, start) THEN Plus(start, 30) ELSE end1

\* the body of the loop for one element with a valid start
NormaliseOne(e, tz) ==
    LET s == OrChain(e, StartKeys)
        en == OrChain(e, EndKeys)
        start == ParseInstant(s)
        end0 == IF Truthy(en) THEN ParseInstant(en) ELSE Null
    IN [title |-> Trim(ToStr(OrElse(OrElse(Get(e, "title"), Get(e, "name")), Str(SchoolEvent)))),
        location |-> Trim(ToStr(OrElse(OrElse(Get(e, "location"), Get(e, "place")), Str(<<>>)))),
        description |-> ToStr(OrElse(Get(e, "description"), Str(<<>>))),
        url |-> OrElse(OrChain(e, <<"url", "link", "event_url">>), Null),
        allDay |-> Truthy(OrElse(Get(e, "all_day"), Get(e, "allDay"))),
        start |-> start,
        end |-> RepairEnd(start, DefaultEnd(start, end0))]

\* the loop without the skip
SkippedNever(e) == FALSE
\* if (!start.isValid) continue
Skipped(e) == ~ParseInstant(OrChain(e, StartKeys)).valid

RECURSIVE NormaliseAll(_, _)
NormaliseAll(arr, tz) ==
    IF arr = <<>> THEN <<>>
    ELSE IF Skipped(Head(arr)) THEN NormaliseAll(Tail(arr), tz)
    ELSE <<NormaliseOne(Head(arr), tz)>> \o NormaliseAll(Tail(arr), tz)

\* normaliseFromJSON(raw, tz): the events, or threw when an element is null
normaliseFromJSON(r, tz) ==
    LET arr == PayloadArray(r)
    IN IF \E i \in 1..Len(arr) : Throws(arr[i])
       THEN [threw |-> TRUE, out |-> <<>>]
       ELSE [threw |-> FALSE, out |-> NormaliseAll(arr, tz)]

\* the elements of arr at the indices in keep, in order
RECURSIVE Pick(_, _, _)
Pick(arr, keep, i) ==
    IF i > Len(arr) THEN <<>>
    ELSE (IF i \in keep THEN <<arr[i]>> ELSE <<>>) \o Pick(arr, keep, i + 1)

\* uniqBy(arr, idFn): x is pushed unless its key is already in the Set seen,
\* that is unless an earlier element has the same key; idFn is a function
\* defined on the elements of arr
uniqBy(arr, idFn) ==
    Pick(arr, {i \in 1..Len(arr) : \A j \in 1..(i - 1) : idFn[arr[j]] # idFn[arr[i]]}, 1)

\* e => `${e.title}|${e.start.toISO()}|${e.location || ""}`
DedupeKey(e) == e.title \o <<"|">> \o IsoText(e.start.ts) \o <<"|">> \o e.location

\* the key function on the elements of arr
DedupeKeyOf(arr) == [e \in {arr[i] : i \in 1..Len(arr)} |-> DedupeKey(e)]

----------------------------------------------------------------------------
(* Window filter, encoder, decoder, validator *)

\* the filter with both comparisons inclusive
InWindowClosed(e) ==
    /\ DtLe(e.start, At(windowBounds.end))
    /\ DtGe(e.end, At(windowBounds.start))

\* events.filter(e => e.start < end && e.end > start)
InWindow(e) ==
    /\ DtLt(e.start, At(windowBounds.end))
    /\ DtGt(e.end, At(windowBounds.start))

UpperCase == <<"A", "B", "C", "D", "E", "F", "G", "H", "I", "J", "K", "L", "M",
               "N", "O", "P", "Q", "R", "S", "T", "U", "V", "W", "X", "Y", "Z">>
LowerCase == <<"a", "b", "c", "d", "e", "f", "g", "h", "i", "j", "k", "l", "m",
               "n", "o", "p", "q", "r", "s", "t", "u", "v", "w", "x", "y", "z">>
DigitChars == {"0", "1", "2", "3", "4", "5", "6", "7", "8", "9"}

\* c matches [a-z0-9] under the i flag
IsAlnum(c) ==
    \/ c \in DigitChars
    \/ \E i \in 1..26 : c = UpperCase[i] \/ c = LowerCase[i]

\* c.toLowerCase()
ToLower(c) ==
    IF \E i \in 1..26 : c = UpperCase[i]
    THEN LowerCase[CHOOSE i \in 1..26 : c = UpperCase[i]]
    ELSE c

\* title.replace(/[^a-z0-9]+/gi, "-").toLowerCase()
RECURSIVE Slug(_)
Slug(s) ==
    IF s = <<>> THEN <<>>
    ELSE IF IsAlnum(Head(s)) THEN <<ToLower(Head(s))>> \o Slug(Tail(s))
    ELSE IF Len(s) > 1 /\ ~IsAlnum(s[2]) THEN Slug(Tail(s))
    ELSE <<"-">> \o Slug(Tail(s))

\* an identifier that also takes the location in
UidWithLocation(e) ==
    <<"involve-", ToString(e.start.ts), "-">> \o Slug(e.title) \o <<"-">> \o Slug(e.location)

\* `involve-${s.toMillis()}-${slug}`
Uid(e) == <<"involve-", ToString(e.start.ts), "-">> \o Slug(e.title)

\* one element of icsEvents: date components for an all-day event,
\* date and time components (to the minute) otherwise, both in UTC
ToIcsEvent(e) ==
    IF e.allDay
    THEN [uid |-> Uid(e), dateOnly |-> TRUE,
          start |-> e.start.ts \div Day, end |-> e.end.ts \div Day]
    ELSE [uid |-> Uid(e), dateOnly |-> FALSE,
          start |-> e.start.ts, end |-> e.end.ts]

\* events.map(e => ...): the VEVENT blocks createEvents serialises, in order
RECURSIVE ToIcsEvents(_)
ToIcsEvents(evs) ==
    IF evs = <<>> THEN <<>> ELSE <<ToIcsEvent(Head(evs))>> \o ToIcsEvents(Tail(evs))

\* the start Date node-ical gives a parsed VEVENT
ParsedStart(v) == IF v.dateOnly THEN v.start * Day ELSE v.start

\* Object.values(ical.parseICS(icsText)).filter(v => v.type === "VEVENT"):
\* the result is keyed by UID, a later block of the same UID replaces the fields
\* of an earlier one
ParseICS(text) ==
    {text[i] : i \in {j \in 1..Len(text) :
                        \A k \in (j + 1)..Len(text) : text[k].uid # text[j].uid}}

\* within(d): d >= start.toJSDate() && d <= end.toJSDate()
Within(d) == d >= windowBounds.start /\ d <= windowBounds.end

\* icsWindow.length
IcsWindowCount(text) == Cardinality({v \in ParseICS(text) : Within(ParsedStart(v))})

\* icsWindow.length !== events.length
ValidationFails(text, evs) == IcsWindowCount(text) # Len(evs)

----------------------------------------------------------------------------
(* Coverage *)

RECURSIVE FlatNormalised(_)
FlatNormalised(caps) ==
    IF caps = <<>> THEN <<>>
    ELSE LET r == normaliseFromJSON(Head(caps), "Europe/London")
         IN (IF r.threw THEN <<>> ELSE r.out) \o FlatNormalised(Tail(caps))

\* allNormalised()
allNormalised == FlatNormalised(captured)

MinStart(evs) == CHOOSE m \in {evs[i].start.ts : i \in 1..Len(evs)} :
                    \A i \in 1..Len(evs) : m <= evs[i].start.ts
MaxStart(evs) == CHOOSE m \in {evs[i].start.ts : i \in 1..Len(evs)} :
                    \A i \in 1..Len(evs) : m >= evs[i].start.ts

\* coverage() with the start bound judged on the latest start
coverageLatestForStart ==
    LET evs == allNormalised
    IN IF evs = <<>> THEN [okStart |-> FALSE, okEnd |-> FALSE, count |-> 0]
       ELSE [okStart |-> MaxStart(evs) <= windowBounds.start,
             okEnd |-> MaxStart(evs) >= windowBounds.end - 1,
             count |-> Len(evs)]

\* coverage() without the test for no events: min and max are null, and
\* null <= start is true
coverageNoEmptyTest ==
    LET evs == allNormalised
    IN IF evs = <<>> THEN [okStart |-> TRUE, okEnd |-> FALSE, count |-> 0]
       ELSE [okStart |-> MinStart(evs) <= windowBounds.start,
             okEnd |-> MaxStart(evs) >= windowBounds.end - 1,
             count |-> Len(evs)]

\* coverage()
coverage ==
    LET evs == allNormalised
    IN IF evs = <<>> THEN [okStart |-> FALSE, okEnd |-> FALSE, count |-> 0]
       ELSE [okStart |-> MinStart(evs) <= windowBounds.start,
             okEnd |-> MaxStart(evs) >= windowBounds.end - 1,
             count |-> Len(evs)]

----------------------------------------------------------------------------
(* The page: payloads its responses carry *)

\* the most captures one run accumulates
MaxCaptures == 3

\* a lesson inside the window
EvIn == Obj([title |-> Str(<<"P", "E">>),
             start |-> Iso(Today + Day + 9 * Hour),
             end |-> Iso(Today + Day + 10 * Hour)])
\* a trip that starts before the window opens and ends inside it
EvOverlap == Obj([title |-> Str(<<"T", "r", "i", "p">>),
                  start |-> Iso(Today - 30),
                  end |-> Iso(Today + 30)])
\* an event at the closing instant of the window, as epoch time, without end
EvLate == Obj([name |-> Str(<<"F", "a", "i", "r">>),
               starts_at |-> Num(Today + WindowDays * Day)])

Payloads == {Arr(<<EvIn>>), Obj([events |-> Arr(<<EvOverlap>>)]), Obj([data |-> Arr(<<EvLate>>)])}

\* a response: whether its URL matches the allow-list, whether its content
\* type is JSON-like, and what its body parses to (null: not JSON)
Responses == [urlMatches : BOOLEAN, structured : BOOLEAN, data : Payloads \cup {Null}]

\* the range label readHeaderText returns
Labels == {<<>>, <<"w", "1">>, <<"w", "2">>}

\* no call of clickWeekNav is being followed
NoClick == [at |-> "idle"]

NoFile == [exists |-> FALSE, data |-> <<>>]
File(d) == [exists |-> TRUE, data |-> d]

----------------------------------------------------------------------------
(* The run *)

MAX_ITER == 20
MAX_STALE == 5

\* where the main flow is suspended in an await while the browser is open
AwaitPcs == {"load", "prevClick", "prevSettle", "nextClick", "nextSettle", "debug"}
\* where the watchdog is still to be read
WatchedPcs == {"load", "prevClick", "prevSettle", "nextClick", "nextSettle"}

Init ==
    /\ pc = "load"
    /\ outcome = "running"
    /\ expired = FALSE
    /\ captured = <<>>
    /\ stale = 0
    /\ lastCount = 0
    /\ iterations = 0
    /\ count = 0
    /\ events = <<>>
    /\ icsText = <<>>
    /\ primary = NoFile
    /\ jsonDump = NoFile
    /\ lastGood = NoFile
    /\ forwardStepped = FALSE
    /\ backwardStepped = FALSE
    /\ noGain = 0
    /\ lastStep = "none"
    /\ atStart = [primary |-> NoFile, jsonDump |-> NoFile, lastGood |-> NoFile]
    /\ raw = Null
    /\ normOut = [threw |-> FALSE, out |-> <<>>]
    /\ click = NoClick

files == <<primary, jsonDump, lastGood>>
navVars == <<stale, lastCount, iterations, count, forwardStepped, backwardStepped,
            noGain, lastStep>>
normVars == <<raw, normOut, click>>

\* the wall clock passes watchdogEnds while the main flow is suspended
Tick ==
    /\ pc \in WatchedPcs
    /\ ~expired
    /\ expired' = TRUE
    /\ UNCHANGED <<pc, outcome, captured, events, icsText, files, navVars, atStart, normVars>>

\* context.on("response", ...)
OnResponse ==
    /\ pc \in AwaitPcs
    /\ Len(captured) < MaxCaptures
    /\ \E resp \in Responses :
        captured' = IF resp.urlMatches /\ resp.structured /\ Truthy(resp.data)
                    THEN Append(captured, resp.data)
                    ELSE captured
    /\ UNCHANGED <<pc, outcome, expired, events, icsText, files, navVars, atStart, normVars>>

\* an uncaught exception of a page operation rejects the main flow
Abort ==
    /\ pc' = "end"
    /\ outcome' = "page"

\* page.goto ... autoScrollExhaustive(page) of the initial load
Load ==
    /\ pc = "load"
    /\ \E ok \in BOOLEAN :
        IF ok THEN pc' = "prev" /\ outcome' = outcome ELSE Abort
    /\ UNCHANGED <<expired, captured, events, icsText, files, navVars, atStart, normVars>>

\* the loop condition without the iteration budget
LoopGuardNoBudget == ~expired

\* the loop condition without the watchdog
LoopGuardNoWatchdog == iterations < MAX_ITER

\* the condition of both while loops
LoopGuard == ~expired /\ iterations < MAX_ITER

\* the movement test without the comparison with the label read before
MovedAnyLabel(before, after) == after # <<>>

\* clickWeekNav: true only if a label read after an action is non-empty and
\* differs from the label read before
Moved(before, after) == after # <<>> /\ after # before

\* if (count === lastCount) stale++; else stale = 0
StaleAfter == IF count = lastCount THEN stale + 1 ELSE 0

\* history: whether the movement that just settled added an event
NoGainAfter == IF Len(allNormalised) > count THEN 0 ELSE noGain + 1

\* leaving the first loop: stale = 0, then the second loop
EnterForward ==
    /\ pc' = "next"
    /\ stale' = 0
    /\ noGain' = 0
    /\ count' = 0

\* leaving the second loop; no loop variable is read again
LeaveForward ==
    /\ pc' = "derive"
    /\ count' = 0

\* while (...) { iterations++; coverage(); if (okStart) break; clickWeekNav(page, "prev") ...
PrevHead ==
    /\ pc = "prev"
    /\ IF ~LoopGuard
       THEN EnterForward /\ UNCHANGED <<iterations, backwardStepped>>
       ELSE /\ iterations' = iterations + 1
            /\ IF coverage.okStart
               THEN EnterForward /\ UNCHANGED backwardStepped
               ELSE /\ pc' = "prevClick"
                    /\ count' = coverage.count
                    /\ backwardStepped' = TRUE
                    /\ UNCHANGED <<stale, noGain>>
    /\ UNCHANGED <<outcome, expired, captured, events, icsText, files, lastCount,
                   forwardStepped, lastStep, atStart, normVars>>

\* the step with continue in place of break when nothing moved
PrevClickRetry ==
    /\ pc = "prevClick"
    /\ \E before \in Labels, after \in Labels :
        IF Moved(before, after)
        THEN pc' = "prevSettle" /\ lastStep' = "moved" /\ UNCHANGED <<stale, noGain, count>>
        ELSE pc' = "prev" /\ lastStep' = "unmoved" /\ UNCHANGED <<stale, noGain, count>>
    /\ UNCHANGED <<outcome, expired, captured, events, icsText, files, lastCount,
                   iterations, forwardStepped, backwardStepped, atStart, normVars>>

\* the step without the settle after a movement
PrevClickNoSettle ==
    /\ pc = "prevClick"
    /\ \E before \in Labels, after \in Labels :
        IF Moved(before, after)
        THEN pc' = "prev" /\ lastStep' = "moved" /\ UNCHANGED <<stale, noGain, count>>
        ELSE EnterForward /\ lastStep' = "unmoved"
    /\ UNCHANGED <<outcome, expired, captured, events, icsText, files, lastCount,
                   iterations, forwardStepped, backwardStepped, atStart, normVars>>

\* ... const moved = await clickWeekNav(page, "prev"); if (!moved) break; ...
PrevClick ==
    /\ pc = "prevClick"
    /\ \E before \in Labels, after \in Labels :
        IF Moved(before, after)
        THEN pc' = "prevSettle" /\ lastStep' = "moved" /\ UNCHANGED <<stale, noGain, count>>
        ELSE EnterForward /\ lastStep' = "unmoved"
    /\ UNCHANGED <<outcome, expired, captured, events, icsText, files, lastCount,
                   iterations, forwardStepped, backwardStepped, atStart, normVars>>

\* ... await autoScrollExhaustive(page); stale bookkeeping; if (stale >= MAX_STALE) break }
PrevSettle ==
    /\ pc = "prevSettle"
    /\ \E ok \in BOOLEAN :
        IF ~ok
        THEN Abort /\ UNCHANGED <<stale, lastCount, count, noGain, lastStep>>
        ELSE /\ lastCount' = count
             /\ lastStep' = "settled"
             /\ outcome' = outcome
             /\ IF StaleAfter >= MAX_STALE
                THEN EnterForward
                ELSE /\ pc' = "prev"
                     /\ stale' = StaleAfter
                     /\ noGain' = NoGainAfter
                     /\ count' = 0
    /\ UNCHANGED <<expired, captured, events, icsText, files, iterations,
                   forwardStepped, backwardStepped, atStart, normVars>>

\* while (...) { iterations++; coverage(); if (okEnd) break; clickWeekNav(page, "next") ...
NextHead ==
    /\ pc = "next"
    /\ IF ~LoopGuard
       THEN LeaveForward /\ UNCHANGED <<iterations, forwardStepped>>
       ELSE /\ iterations' = iterations + 1
            /\ IF coverage.okEnd
               THEN LeaveForward /\ UNCHANGED forwardStepped
               ELSE /\ pc' = "nextClick"
                    /\ count' = coverage.count
                    /\ forwardStepped' = TRUE
    /\ UNCHANGED <<outcome, expired, captured, events, icsText, files, stale, lastCount,
                   backwardStepped, noGain, lastStep, atStart, normVars>>

\* the forward step that goes back to the first loop when nothing moved
NextClickTurnsBack ==
    /\ pc = "nextClick"
    /\ \E before \in Labels, after \in Labels :
        IF Moved(before, after)
        THEN pc' = "nextSettle" /\ lastStep' = "moved" /\ UNCHANGED count
        ELSE pc' = "prev" /\ lastStep' = "unmoved" /\ UNCHANGED count
    /\ UNCHANGED <<outcome, expired, captured, events, icsText, files, stale, lastCount,
                   iterations, forwardStepped, backwardStepped, noGain, atStart, normVars>>

\* ... const moved = await clickWeekNav(page, "next"); if (!moved) break; ...
NextClick ==
    /\ pc = "nextClick"
    /\ \E before \in Labels, after \in Labels :
        IF Moved(before, after)
        THEN pc' = "nextSettle" /\ lastStep' = "moved" /\ UNCHANGED count
        ELSE LeaveForward /\ lastStep' = "unmoved"
    /\ UNCHANGED <<outcome, expired, captured, events, icsText, files, stale, lastCount,
                   iterations, forwardStepped, backwardStepped, noGain, atStart, normVars>>

\* ... await autoScrollExhaustive(page); stale bookkeeping; if (stale >= MAX_STALE) break }
NextSettle ==
    /\ pc = "nextSettle"
    /\ \E ok \in BOOLEAN :
        IF ~ok
        THEN Abort /\ UNCHANGED <<stale, lastCount, count, noGain, lastStep>>
        ELSE /\ lastCount' = count
             /\ lastStep' = "settled"
             /\ outcome' = outcome
             /\ stale' = StaleAfter
             /\ noGain' = NoGainAfter
             /\ IF StaleAfter >= MAX_STALE
                THEN LeaveForward
                ELSE pc' = "next" /\ count' = 0
    /\ UNCHANGED <<expired, captured, events, icsText, files, iterations,
                   forwardStepped, backwardStepped, atStart, normVars>>

\* the loop variables and the histories of the loops are not read after the loops
ForgetLoopVars ==
    /\ stale' = 0
    /\ lastCount' = 0
    /\ iterations' = 0
    /\ count' = 0
    /\ forwardStepped' = FALSE
    /\ backwardStepped' = FALSE
    /\ noGain' = 0
    /\ lastStep' = "none"

\* let events = uniqBy(allNormalised(), key); events = events.filter(window)
Derive ==
    /\ pc = "derive"
    /\ events' = SelectSeq(uniqBy(allNormalised, DedupeKeyOf(allNormalised)), InWindow)
    /\ pc' = "debug"
    /\ ForgetLoopVars
    /\ UNCHANGED <<outcome, expired, captured, icsText, files, atStart, normVars>>

\* the debug artefacts, then await browser.close()
CloseBrowser ==
    /\ pc = "debug"
    /\ pc' = "sanity"
    /\ UNCHANGED <<outcome, expired, captured, events, icsText, files, navVars, atStart, normVars>>

\* the threshold compared one too low
SanityFailsOffByOne == Len(events) < MinEvents - 1

\* (events.length || 0) < (cfg.sanity?.minEvents ?? 1)
SanityFails == Len(events) < MinEvents

\* Sanity threshold
SanityCheck ==
    /\ pc = "sanity"
    /\ IF SanityFails
       THEN pc' = "end" /\ outcome' = "sanity"
       ELSE pc' = "encode" /\ outcome' = outcome
    /\ UNCHANGED <<expired, captured, events, icsText, files, navVars, atStart, normVars>>

\* the JSON dump written together with the artifact, before validation
WriteICSAndJson ==
    /\ pc = "encode"
    /\ icsText' = ToIcsEvents(events)
    /\ primary' = File(ToIcsEvents(events))
    /\ jsonDump' = File(events)
    /\ pc' = "validate"
    /\ UNCHANGED <<outcome, expired, captured, events, lastGood, navVars, atStart, normVars>>

\* createEvents(icsEvents, ...): fs.writeFileSync(cfg.outputPath, value)
WriteICS ==
    /\ pc = "encode"
    /\ icsText' = ToIcsEvents(events)
    /\ primary' = File(ToIcsEvents(events))
    /\ pc' = "validate"
    /\ UNCHANGED <<outcome, expired, captured, events, jsonDump, lastGood, navVars,
                   atStart, normVars>>

\* a validation that never throws
ValidateNoThrow ==
    /\ pc = "validate"
    /\ pc' = "json"
    /\ UNCHANGED <<outcome, expired, captured, events, icsText, files, navVars, atStart, normVars>>

\* Validate round-trip: throw on a count mismatch
Validate ==
    /\ pc = "validate"
    /\ IF ValidationFails(icsText, events)
       THEN pc' = "end" /\ outcome' = "validation"
       ELSE pc' = "json" /\ outcome' = outcome
    /\ UNCHANGED <<expired, captured, events, icsText, files, navVars, atStart, normVars>>

\* fs.writeFileSync(cfg.outputJsonPath, JSON.stringify(events, null, 2))
WriteJson ==
    /\ pc = "json"
    /\ jsonDump' = File(events)
    /\ pc' = "copy"
    /\ UNCHANGED <<outcome, expired, captured, events, icsText, primary, lastGood,
                   navVars, atStart, normVars>>

\* if (cfg.sanity?.protectLastGood) fs.copyFileSync(cfg.outputPath, lastGoodPath)
CopyLastGood ==
    /\ pc = "copy"
    /\ lastGood' = IF ProtectLastGood THEN primary ELSE lastGood
    /\ pc' = "end"
    /\ outcome' = "ok"
    /\ UNCHANGED <<expired, captured, events, icsText, primary, jsonDump, navVars,
                   atStart, normVars>>

\* the next scheduled run: a new process, the files are what the last run left
StartRun ==
    /\ pc = "end"
    /\ pc' = "load"
    /\ outcome' = "running"
    /\ expired' = FALSE
    /\ captured' = <<>>
    /\ stale' = 0
    /\ lastCount' = 0
    /\ iterations' = 0
    /\ count' = 0
    /\ events' = <<>>
    /\ icsText' = <<>>
    /\ forwardStepped' = FALSE
    /\ backwardStepped' = FALSE
    /\ noGain' = 0
    /\ lastStep' = "none"
    /\ atStart' = [primary |-> primary, jsonDump |-> jsonDump, lastGood |-> lastGood]
    /\ UNCHANGED <<files, normVars>>

\* one run, from the initial load to its end
Next ==
    \/ Tick
    \/ OnResponse
    \/ Load
    \/ PrevHead
    \/ PrevClick
    \/ PrevSettle
    \/ NextHead
    \/ NextClick
    \/ NextSettle
    \/ Derive
    \/ CloseBrowser
    \/ SanityCheck
    \/ WriteICS
    \/ Validate
    \/ WriteJson
    \/ CopyLastGood

Spec == Init /\ [][Next]_vars

----------------------------------------------------------------------------
(* Sequences of runs.  The harvest of a run (initial load and the two       *)
(* expansion loops) hands the rest of the run nothing but the capture       *)
(* accumulation, so it is taken here as one step that leaves any            *)
(* accumulation the page can produce, or fails on a page operation.         *)

Accumulations == UNION {[1..n -> Payloads] : n \in 0..MaxCaptures}

Harvest ==
    /\ pc = "load"
    /\ \E ok \in BOOLEAN :
        IF ok
        THEN /\ \E caps \in Accumulations : captured' = caps
             /\ pc' = "derive"
             /\ outcome' = outcome
        ELSE Abort /\ captured' = captured
    /\ UNCHANGED <<expired, events, icsText, files, navVars, atStart, normVars>>

NextRuns ==
    \/ Harvest
    \/ OnResponse
    \/ Derive
    \/ CloseBrowser
    \/ SanityCheck
    \/ WriteICS
    \/ Validate
    \/ WriteJson
    \/ CopyLastGood
    \/ StartRun

SpecRuns == Init /\ [][NextRuns]_vars

----------------------------------------------------------------------------
(* The rest of a run after the harvest, for every accumulation of a bounded *)
(* family of records: dedupe, window filter, sanity, encode, validate,      *)
(* publish.                                                                  *)

\* the most records the accumulation holds
MaxEvents == 3

\* cfg.expectedCounts, set as the comment of its line shows
ExpectedCounts == [week1 |-> 1, week2 |-> 1]

T1 == Today + Day + 9 * Hour
T2 == T1 + Hour

\* the lesson again, in another place
EvHall == Obj([title |-> Str(<<"P", "E">>),
               start |-> Iso(T1),
               end |-> Iso(T2),
               location |-> Str(<<"H", "a", "l", "l">>)])
\* the lesson again, sent with another end and a description
EvAgain == Obj([title |-> Str(<<"P", "E">>),
                start |-> Iso(T1),
                end |-> Iso(T2 + Hour),
                description |-> Str(<<"k", "i", "t">>)])
\* the lesson under a title in lower case
EvLower == Obj([title |-> Str(<<"p", "e">>),
                start |-> Iso(T1),
                end |-> Iso(T2)])
\* an event that ends at the opening instant of the window
EvEve == Obj([title |-> Str(<<"E", "v", "e">>),
              start |-> Iso(Today - Hour),
              end |-> Iso(Today)])
\* an all-day event on the third day of the window: local midnight to local midnight
EvFete == Obj([title |-> Str(<<"F", "e", "t", "e">>),
               all_day |-> Bool(TRUE),
               start |-> Iso(Today + 2 * Day),
               end |-> Iso(Today + 3 * Day)])
\* an event in the second week of the window
EvGala == Obj([title |-> Str(<<"G", "a", "l", "a">>),
               start |-> Iso(Today + 8 * Day + 9 * Hour),
               end |-> Iso(Today + 8 * Day + 10 * Hour)])
\* an event whose end does not parse
EvTbc == Obj([title |-> Str(<<"T", "b", "c">>),
              start |-> Iso(T1),
              end |-> Str(<<"t", "b", "c">>)])
\* an event flagged all-day that starts at midnight UTC and has no end
EvSports == Obj([title |-> Str(<<"S", "p", "o", "r", "t", "s">>),
                 all_day |-> Bool(TRUE),
                 start |-> Iso(Today + ZoneOffset + 4 * Day)])
\* two events whose texts contain the separator and a timestamp
EvPipeInLocation == Obj([title |-> Str(<<"A">>),
                         start |-> Iso(T1),
                         end |-> Iso(T1 + 30),
                         location |-> Str(<<"B", "|">> \o IsoText(T2) \o <<"|", "C">>)])
EvPipeInTitle == Obj([title |-> Str(<<"A", "|">> \o IsoText(T1) \o <<"|", "B">>),
                      start |-> Iso(T2),
                      end |-> Iso(T2 + 30),
                      location |-> Str(<<"C">>)])

HarvestedRecords == {EvIn, EvHall, EvAgain, EvLower, EvOverlap, EvEve, EvLate, EvFete,
                     EvGala, EvTbc, EvSports, EvPipeInLocation, EvPipeInTitle}

\* the state the harvest leaves: the accumulation, the loop variables dead
InitPipe ==
    /\ pc = "derive"
    /\ outcome = "running"
    /\ expired = FALSE
    /\ \E n \in 0..MaxEvents : \E a \in [1..n -> HarvestedRecords] : captured = <<Arr(a)>>
    /\ stale = 0
    /\ lastCount = 0
    /\ iterations = 0
    /\ count = 0
    /\ events = <<>>
    /\ icsText = <<>>
    /\ primary = NoFile
    /\ jsonDump = NoFile
    /\ lastGood = NoFile
    /\ forwardStepped = FALSE
    /\ backwardStepped = FALSE
    /\ noGain = 0
    /\ lastStep = "none"
    /\ atStart = [primary |-> NoFile, jsonDump |-> NoFile, lastGood |-> NoFile]
    /\ raw = Null
    /\ normOut = [threw |-> FALSE, out |-> <<>>]
    /\ click = NoClick

NextPipe ==
    \/ Derive
    \/ CloseBrowser
    \/ SanityCheck
    \/ WriteICS
    \/ Validate
    \/ WriteJson
    \/ CopyLastGood

SpecPipe == InitPipe /\ [][NextPipe]_vars

----------------------------------------------------------------------------
(* The normaliser on its own: every payload of a bounded family *)

\* the most records a payload under test holds
MaxRecords == 2

\* the start of the records under test
T0 == Today + 8 * Hour

NoKeys == [k \in {} |-> Null]

StartChoices == {NoKeys,
                 [start |-> Iso(T0)],
                 [starts_at |-> Num(T0 + 30)],
                 [start |-> Str(<<"t", "b", "c">>)]}

EndChoices == {NoKeys,
               [end |-> Iso(T0 - Hour)],
               [end |-> Iso(T0)],
               [end |-> Iso(T0 + 90)],
               [ends_at |-> Num(T0 + 90)],
               [end |-> Str(<<"t", "b", "c">>)],
               [end |-> Str(<<>>)],
               [end |-> Null]}

\* records that differ in when they start and end
TimingRecords == {Obj(s @@ e) : s \in StartChoices, e \in EndChoices}

\* what a record says its title is
TitleChoices == {[title |-> Str(<<" ", "P", "E", " ">>)],
                 [title |-> Str(<<" ">>)],
                 [title |-> Str(<<>>), name |-> Str(<<"F", "a", "i", "r">>)],
                 [name |-> Str(<<" ">>)],
                 [title |-> Num(7)]}

\* the other fields of a record, under either of their keys
OtherFields == {NoKeys,
                [location |-> Str(<<" ", "G", "y", "m">>),
                 description |-> Str(<<"k", "i", "t", " ">>),
                 url |-> Str(<<"u">>),
                 all_day |-> Bool(TRUE)],
                [place |-> Str(<<"G", "y", "m">>),
                 link |-> Str(<<"u">>),
                 allDay |-> Num(1)]}

\* records that differ in their text fields
TextRecords == {Obj(t @@ o @@ [start |-> Iso(T0)]) : t \in TitleChoices, o \in OtherFields}

RawRecords == TimingRecords \cup TextRecords

\* the three shapes of a payload around the array a
Shapes == {"array", "events", "data"}
Wrap(shape, a) ==
    CASE shape = "array" -> Arr(a)
      [] shape = "events" -> Obj([events |-> Arr(a)])
      [] shape = "data" -> Obj([data |-> Arr(a)])

InitNorm ==
    /\ pc = "normalise"
    /\ outcome = "running"
    /\ expired = FALSE
    /\ captured = <<>>
    /\ stale = 0
    /\ lastCount = 0
    /\ iterations = 0
    /\ count = 0
    /\ events = <<>>
    /\ icsText = <<>>
    /\ primary = NoFile
    /\ jsonDump = NoFile
    /\ lastGood = NoFile
    /\ forwardStepped = FALSE
    /\ backwardStepped = FALSE
    /\ noGain = 0
    /\ lastStep = "none"
    /\ atStart = [primary |-> NoFile, jsonDump |-> NoFile, lastGood |-> NoFile]
    /\ \E n \in 0..MaxRecords : \E a \in [1..n -> RawRecords] : \E shape \in Shapes :
            raw = Wrap(shape, a)
    /\ normOut = [threw |-> FALSE, out |-> <<>>]
    /\ click = NoClick

\* normaliseFromJSON(raw, cfg.timeZone)
Normalise ==
    /\ pc = "normalise"
    /\ normOut' = normaliseFromJSON(raw, "Europe/London")
    /\ pc' = "normalised"
    /\ UNCHANGED <<outcome, expired, captured, events, icsText, files, navVars, atStart,
                   raw, click>>

\* JSON.stringify of one event and JSON.parse of the text: the event as a
\* record under the standard keys, a DateTime as its ISO text, the invalid
\* DateTime as null
AsRaw(e) ==
    Obj([title |-> Str(e.title),
         location |-> Str(e.location),
         description |-> Str(e.description),
         url |-> e.url,
         allDay |-> Bool(e.allDay),
         start |-> IF e.start.valid THEN Iso(e.start.ts) ELSE Null,
         end |-> IF e.end.valid THEN Iso(e.end.ts) ELSE Null])

AsRawAll(evs) == [i \in 1..Len(evs) |-> AsRaw(evs[i])]

\* normaliseFromJSON on the events it returned, presented as records
Renormalise ==
    /\ pc = "normalised"
    /\ ~normOut.threw
    /\ raw' = Arr(AsRawAll(normOut.out))
    /\ normOut' = normaliseFromJSON(raw', "Europe/London")
    /\ pc' = "renormalised"
    /\ UNCHANGED <<outcome, expired, captured, events, icsText, files, navVars, atStart, click>>

NextNorm ==
    \/ Normalise
    \/ Renormalise

SpecNorm == InitNorm /\ [][NextNorm]_vars

----------------------------------------------------------------------------
(* Publish gate *)

\* the artifact in a file decodes to as many entries inside the window as it
\* holds blocks, which is what the run that wrote it compared
PassesRoundTrip(f) == IcsWindowCount(f.data) = Len(f.data)

RunFailedCheck == pc = "end" /\ outcome \in {"sanity", "validation"}

\* C1: when a run has ended, the primary artifact, if there is one, is not an
\* artifact that failed round-trip validation.
C1_PrimaryNeverInvalid ==
    (pc = "end" /\ primary.exists) => PassesRoundTrip(primary)

\* C2: a run that ends on a validation failure, with protection enabled and a
\* last-known-good file present, has copied the last-known-good artifact over
\* the primary artifact.
C2_RestoredOnFailure ==
    (pc = "end" /\ outcome = "validation" /\ ProtectLastGood /\ atStart.lastGood.exists)
        => primary = atStart.lastGood

\* C3: the last-known-good file changes only in the copy step of a run whose
\* artifact passed validation, and then equals the primary artifact; a run that
\* ends on a sanity or validation failure leaves it as it was at run start.
C3_LastGoodOnlyAfterValidation ==
    [][/\ lastGood' # lastGood =>
            /\ pc = "copy"
            /\ ~ValidationFails(icsText, events)
            /\ primary = File(icsText)
            /\ lastGood' = primary'
       /\ (pc' = "end" /\ outcome' \in {"sanity", "validation"}) =>
            lastGood' = atStart.lastGood]_vars

\* a failed run ended with the last-known-good file of an earlier run in place
\* while the primary artifact is another one
C3_Witness ==
    /\ RunFailedCheck
    /\ lastGood.exists
    /\ lastGood # primary
    /\ lastGood = atStart.lastGood

\* C4: the JSON dump changes only after the validation of the same run has
\* succeeded, and then holds the run's event list; a run that ends on a sanity
\* or validation failure leaves it as it was at run start.
C4_JsonOnlyAfterValidation ==
    [][/\ jsonDump' # jsonDump =>
            /\ pc = "json"
            /\ ~ValidationFails(icsText, events)
            /\ jsonDump' = File(events)
       /\ (pc' = "end" /\ outcome' \in {"sanity", "validation"}) =>
            jsonDump' = atStart.jsonDump]_vars

\* a run failed validation and the dump still is the one an earlier run wrote
C4_Witness ==
    /\ pc = "end"
    /\ outcome = "validation"
    /\ jsonDump.exists
    /\ jsonDump.data # events

\* C5: with fewer events than the minimum the sanity check ends the run at once,
\* nothing having been encoded, and the three files are as they were at run start.
C5_SanityFailureTouchesNothing ==
    [][(pc = "sanity" /\ Len(events) < MinEvents) =>
            /\ pc' = "end"
            /\ outcome' = "sanity"
            /\ icsText' = <<>>
            /\ primary' = atStart.primary
            /\ jsonDump' = atStart.jsonDump
            /\ lastGood' = atStart.lastGood]_vars

\* a run with no event in the window ended on the sanity check with the files
\* of an earlier run in place
C5_Witness ==
    /\ pc = "end"
    /\ outcome = "sanity"
    /\ Len(events) < MinEvents
    /\ primary.exists
    /\ jsonDump.exists
    /\ lastGood.exists

----------------------------------------------------------------------------
(* Navigator budgets *)

\* the step budget of the backward phase where the two phases have their own
MAX_PREV == 8

\* where the main flow is inside clickWeekNav
ClickPcs == {"prevClick", "nextClick"}

\* C6: a run issues at most MAX_ITER navigation steps: the iteration counter
\* never exceeds MAX_ITER, never decreases while the navigator runs, and every
\* navigation step issued raises it by one.
C6_BoundedSteps ==
    /\ [](iterations <= MAX_ITER)
    /\ [][(pc \in {"prev", "prevClick", "prevSettle", "next", "nextClick", "nextSettle"})
            => (iterations' >= iterations)]_vars
    /\ [][(pc' \in ClickPcs /\ pc' # pc) => iterations' = iterations + 1]_vars

\* the step budget alone ended the forward phase: the deadline has not passed,
\* the end bound is not covered and the staleness counter is below its limit
C6_Witness ==
    /\ pc = "next"
    /\ iterations = MAX_ITER
    /\ forwardStepped
    /\ ~expired
    /\ ~coverage.okEnd
    /\ stale < MAX_STALE

\* C7: at most MAX_PREV backward steps (in the first loop every iteration that
\* reaches the click has issued one step, so there iterations counts them),
\* and the step budget does not depend on the backward steps taken: it never
\* refuses the forward phase its first step.
C7_SeparateBudgets ==
    /\ pc = "prevClick" => iterations <= MAX_PREV
    /\ (pc = "next" /\ ~forwardStepped) => iterations < MAX_ITER

\* C8: no navigation step is issued in a phase once MAX_STALE consecutive
\* successful movements of that phase added no event.
C8_StaleStops ==
    pc \in ClickPcs => noGain < MAX_STALE

\* C9: once the deadline has passed no navigation step is issued, the backward
\* loop head moves on to the forward phase and the forward loop head to Done.
C9_DeadlineStops ==
    [][expired =>
            /\ (pc = "prev" => pc' = "next")
            /\ (pc = "next" => pc' = "derive")
            /\ (pc' \in ClickPcs => pc' = pc)]_vars

\* the deadline ended the navigation after at least one forward step, with the
\* end bound not covered and both counters below their limits
C9_Witness ==
    /\ pc = "derive"
    /\ expired
    /\ forwardStepped
    /\ ~coverage.okEnd
    /\ iterations < MAX_ITER
    /\ stale < MAX_STALE

----------------------------------------------------------------------------
(* The normaliser on records that spell a field under several keys, and on
   payloads that hold an array under several keys *)

\* records that hold: under the key start nothing, null, 0, "" or an instant;
\* under a later key of the start field nothing or an instant; under the keys
\* of the end field nothing, or 0 or null first and an instant later
KeyRecords ==
    LET first == {NoKeys, [start |-> Null], [start |-> Num(0)], [start |-> Str(<<>>)],
                  [start |-> Iso(T0)]}
        later == {NoKeys, [starts_at |-> Iso(T0 + 30)], [dtstart |-> Num(T0 + Hour)]}
        ends == {NoKeys,
                 [end |-> Num(0), ends_at |-> Iso(T0 + 90)],
                 [end |-> Null, dtend |-> Iso(T0 + 2 * Hour)]}
    IN {Obj(s1 @@ s2 @@ e) : s1 \in first, s2 \in later, e \in ends}

\* the payloads around the array a: the three shapes, an object with a under
\* events and another array under data, an object with null under events and
\* a under data
KeyShapes == Shapes \cup {"eventsAndData", "nullEvents"}
WrapKeys(shape, a) ==
    CASE shape = "eventsAndData" ->
            Obj([events |-> Arr(a), data |-> Arr(<<Obj([start |-> Iso(T0)])>>)])
      [] shape = "nullEvents" -> Obj([events |-> Null, data |-> Arr(a)])
      [] OTHER -> Wrap(shape, a)

InitKeys ==
    /\ pc = "normalise"
    /\ outcome = "running"
    /\ expired = FALSE
    /\ captured = <<>>
    /\ stale = 0
    /\ lastCount = 0
    /\ iterations = 0
    /\ count = 0
    /\ events = <<>>
    /\ icsText = <<>>
    /\ primary = NoFile
    /\ jsonDump = NoFile
    /\ lastGood = NoFile
    /\ forwardStepped = FALSE
    /\ backwardStepped = FALSE
    /\ noGain = 0
    /\ lastStep = "none"
    /\ atStart = [primary |-> NoFile, jsonDump |-> NoFile, lastGood |-> NoFile]
    /\ \E n \in 0..MaxRecords : \E a \in [1..n -> KeyRecords] : \E shape \in KeyShapes :
            raw = WrapKeys(shape, a)
    /\ normOut = [threw |-> FALSE, out |-> <<>>]
    /\ click = NoClick

NextKeys == Normalise

SpecKeys == InitKeys /\ [][NextKeys]_vars

\* the value of the first key of keys that is present in e and not null
RECURSIVE FirstPresent(_, _)
FirstPresent(e, keys) ==
    IF keys = <<>> THEN Undefined
    ELSE IF Get(e, Head(keys)).t \notin {"undef", "null"} THEN Get(e, Head(keys))
    ELSE FirstPresent(e, Tail(keys))

\* C28: the start of a record is the value of the first of the start keys that
\* is present and not null, and likewise its end: the record gives an event
\* exactly when that start value parses, the event starts there, and it ends
\* at that end value when this is later than the start and 30 minutes after
\* the start when it is not.
C28_FirstPresentWins ==
    pc = "normalised" =>
        LET recs == PayloadArray(raw)
            kept == Pick(recs, {i \in 1..Len(recs) :
                                  ParseInstant(FirstPresent(recs[i], StartKeys)).valid}, 1)
        IN /\ Len(normOut.out) = Len(kept)
           /\ \A i \in 1..Len(kept) :
                LET st == ParseInstant(FirstPresent(kept[i], StartKeys))
                    en == ParseInstant(FirstPresent(kept[i], EndKeys))
                IN /\ normOut.out[i].start = st
                   /\ (en.valid /\ en.ts > st.ts) => normOut.out[i].end = en
                   /\ (en.valid /\ en.ts <= st.ts) => normOut.out[i].end = At(st.ts + 30)

\* the arrays a payload holds in one of the three shapes
ShapeArrays(r) ==
    (IF r.t = "arr" THEN {r.a} ELSE {})
        \cup (IF Get(r, "events").t = "arr" THEN {Get(r, "events").a} ELSE {})
        \cup (IF Get(r, "data").t = "arr" THEN {Get(r, "data").a} ELSE {})

\* C29: normaliseFromJSON returns no events only if no array the payload holds
\* in one of the three shapes has a record with a parsable start.
C29_AllShapesTried ==
    (pc = "normalised" /\ normOut.out = <<>>) =>
        \A arr \in ShapeArrays(raw) : \A i \in 1..Len(arr) : Skipped(arr[i])

----------------------------------------------------------------------------
(* parseWhen, the text heuristic of the DOM fallback.  A text is the sequence
   of its words, the white space between them left out; "ndash" stands for
   the en dash *)

WeekdayWords == {"Wed", "Thu"}
DayWords == {"3", "4"}
MonthWords == {"Sep"}
YearWords == {"2025"}
TimeWords == {"09:00", "10:30", "14:00"}
OtherWords == {"Fete"}

\* \w+ on words; \d{1,2}, \d{4} and \d{1,2}:\d{2} are membership in DayWords,
\* YearWords and TimeWords
IsWordChars(w) == w \in WeekdayWords \cup DayWords \cup MonthWords \cup YearWords \cup OtherWords

\* the calendar of the texts under test: the model's Today is 1 Sep 2025,
\* local midnight
LocalMidnight(w) == Today + ((IF w = "3" THEN 3 ELSE 4) - 1) * Day
ClockMinutes(w) ==
    CASE w = "09:00" -> 9 * Hour
      [] w = "10:30" -> 10 * Hour + 30
      [] w = "14:00" -> 14 * Hour

\* whenText.replace(/\s+–\s+/g, " - ").replace(/\u2013|\u2014/g, "-")
Cleaned(text) == [i \in 1..Len(text) |-> IF text[i] = "ndash" THEN "-" ELSE text[i]]

\* (Mon|...|Sun)\s+(\d{1,2}\s+\w+\s+\d{4})\s+(\d{1,2}:\d{2})\s*-\s*(\d{1,2}:\d{2})
\* matches from word i on
WeekdayTimedAt(text, i) ==
    /\ i + 6 <= Len(text)
    /\ text[i] \in WeekdayWords
    /\ text[i + 1] \in DayWords /\ IsWordChars(text[i + 2]) /\ text[i + 3] \in YearWords
    /\ text[i + 4] \in TimeWords /\ text[i + 5] = "-" /\ text[i + 6] \in TimeWords

\* (\d{1,2}\s+\w+\s+\d{4})\s+(\d{1,2}:\d{2})\s*-\s*(\d{1,2}:\d{2}) matches from
\* word i on
TimedAt(text, i) ==
    /\ i + 5 <= Len(text)
    /\ text[i] \in DayWords /\ IsWordChars(text[i + 1]) /\ text[i + 2] \in YearWords
    /\ text[i + 3] \in TimeWords /\ text[i + 4] = "-" /\ text[i + 5] \in TimeWords

\* (\d{1,2})\s+(Jan|...|Dec)\s+(\d{4}) matches from word i on
DateOnlyAt(text, i) ==
    /\ i + 2 <= Len(text)
    /\ text[i] \in DayWords /\ text[i + 1] \in MonthWords /\ text[i + 2] \in YearWords

\* the leftmost match of a pattern, 0 when there is none
FirstWeekdayTimed(text) ==
    IF \E i \in 1..Len(text) : WeekdayTimedAt(text, i)
    THEN CHOOSE i \in 1..Len(text) :
            WeekdayTimedAt(text, i) /\ \A j \in 1..(i - 1) : ~WeekdayTimedAt(text, j)
    ELSE 0
FirstTimed(text) ==
    IF \E i \in 1..Len(text) : TimedAt(text, i)
    THEN CHOOSE i \in 1..Len(text) : TimedAt(text, i) /\ \A j \in 1..(i - 1) : ~TimedAt(text, j)
    ELSE 0
FirstDateOnly(text) ==
    IF \E i \in 1..Len(text) : DateOnlyAt(text, i)
    THEN CHOOSE i \in 1..Len(text) :
            DateOnlyAt(text, i) /\ \A j \in 1..(i - 1) : ~DateOnlyAt(text, j)
    ELSE 0

\* the capture groups m[1], m[2], ... of the match of the first timed pattern
\* that matches: four groups with the weekday, three without; <<>> for no match
TimedGroups(text) ==
    LET a == FirstWeekdayTimed(text)
        b == FirstTimed(text)
    IN IF a # 0
       THEN <<SubSeq(text, a, a), SubSeq(text, a + 1, a + 3),
              SubSeq(text, a + 4, a + 4), SubSeq(text, a + 6, a + 6)>>
       ELSE IF b # 0
       THEN <<SubSeq(text, b, b + 2), SubSeq(text, b + 3, b + 3), SubSeq(text, b + 5, b + 5)>>
       ELSE <<>>

\* DateTime.fromFormat(words, "d LLL yyyy HH:mm", { zone: tz })
FromFormatTimed(ws) ==
    IF /\ Len(ws) = 4
       /\ ws[1] \in DayWords /\ ws[2] \in MonthWords /\ ws[3] \in YearWords /\ ws[4] \in TimeWords
    THEN At(LocalMidnight(ws[1]) + ClockMinutes(ws[4]))
    ELSE Invalid

\* DateTime.fromFormat(words, "d LLL yyyy", { zone: tz })
FromFormatDate(ws) ==
    IF Len(ws) = 3 /\ ws[1] \in DayWords /\ ws[2] \in MonthWords /\ ws[3] \in YearWords
    THEN At(LocalMidnight(ws[1]))
    ELSE Invalid

NoEvent == [found |-> FALSE, start |-> Invalid, end |-> Invalid, allDay |-> FALSE]

\* the date-only part of parseWhen
parseWhenDate(cleaned) ==
    LET c == FirstDateOnly(cleaned)
        d == IF c = 0 THEN Invalid ELSE FromFormatDate(SubSeq(cleaned, c, c + 2))
    IN IF c # 0 /\ d.valid
       THEN [found |-> TRUE, start |-> d, end |-> Plus(d, Day), allDay |-> TRUE]
       ELSE NoEvent

\* parseWhen(_t, whenText)
parseWhen(whenText) ==
    IF whenText = <<>> THEN NoEvent
    ELSE LET cleaned == Cleaned(whenText)
             m == TimedGroups(cleaned)
             \* m[2] ?? m[1]: m[2] is a group of either pattern, never undefined
             datePart == IF Len(m) >= 2 THEN m[2] ELSE m[1]
             t1 == m[Len(m) - 1]
             t2 == m[Len(m)]
             d == FromFormatTimed(datePart \o t1)
             e == FromFormatTimed(datePart \o t2)
         IN IF m # <<>> /\ d.valid /\ e.valid
            THEN [found |-> TRUE, start |-> d, end |-> e, allDay |-> FALSE]
            ELSE parseWhenDate(cleaned)

\* the texts under test: nothing, words that are no date, and a date with or
\* without weekday, times and a word before it
WhenTexts ==
    LET dates == {<<d, mo, y>> : d \in DayWords, mo \in MonthWords, y \in YearWords}
        ranges == {<<t1, dash, t2>> : t1 \in TimeWords, dash \in {"-", "ndash"},
                                      t2 \in TimeWords}
        cores == dates
                    \cup {date \o range : date \in dates, range \in ranges}
                    \cup {<<"Fete">>, <<"09:00", "-", "10:30">>, <<"3", "Fete", "2025">>}
    IN {<<>>} \cup {lead \o core : lead \in {<<>>, <<"Wed">>, <<"Fete">>, <<"Fete", "Thu">>},
                                   core \in cores}

InitWhen ==
    /\ pc = "parseWhen"
    /\ outcome = "running"
    /\ expired = FALSE
    /\ captured = <<>>
    /\ stale = 0
    /\ lastCount = 0
    /\ iterations = 0
    /\ count = 0
    /\ events = <<>>
    /\ icsText = <<>>
    /\ primary = NoFile
    /\ jsonDump = NoFile
    /\ lastGood = NoFile
    /\ forwardStepped = FALSE
    /\ backwardStepped = FALSE
    /\ noGain = 0
    /\ lastStep = "none"
    /\ atStart = [primary |-> NoFile, jsonDump |-> NoFile, lastGood |-> NoFile]
    /\ raw \in WhenTexts
    /\ normOut = NoEvent
    /\ click = NoClick

\* const parsed = parseWhen(e.title, e.when || e.rawText)
ParseWhen ==
    /\ pc = "parseWhen"
    /\ normOut' = parseWhen(raw)
    /\ pc' = "parsed"
    /\ UNCHANGED <<outcome, expired, captured, events, icsText, files, navVars, atStart,
                   raw, click>>

NextWhen == ParseWhen

SpecWhen == InitWhen /\ [][NextWhen]_vars

\* C30: a text matching a timed pattern, with or without weekday, gives a
\* timed event from the first to the second time of day on its date; a text
\* matching only the date pattern gives an all-day event from local midnight
\* of its date to the next local midnight; any other text gives no event.
C30_ParseWhen ==
    pc = "parsed" =>
        LET text == Cleaned(raw)
            a == FirstWeekdayTimed(text)
            b == FirstTimed(text)
            c == FirstDateOnly(text)
            timed(i) == [found |-> TRUE, allDay |-> FALSE,
                         start |-> At(LocalMidnight(text[i]) + ClockMinutes(text[i + 3])),
                         end |-> At(LocalMidnight(text[i]) + ClockMinutes(text[i + 5]))]
        IN normOut = IF a # 0 THEN timed(a + 1)
                     ELSE IF b # 0 THEN timed(b)
                     ELSE IF c # 0
                     THEN [found |-> TRUE, allDay |-> TRUE,
                           start |-> At(LocalMidnight(text[c])),
                           end |-> At(LocalMidnight(text[c]) + Day)]
                     ELSE NoEvent

\* C31: every event parseWhen returns ends after it starts.
C31_WhenEndAfterStart ==
    (pc = "parsed" /\ normOut.found) => normOut.end.ts > normOut.start.ts

----------------------------------------------------------------------------
(* The accumulation over one capture whose array holds entries that are not
   records *)

\* what the array of a capture may hold: null, a number, a string, an object
\* without keys, and records
CaptureEntries == {Null, Num(7), Str(<<"x">>), Obj(NoKeys), EvIn, EvOverlap, EvLate, EvGala}

InitEntries ==
    /\ pc = "derive"
    /\ outcome = "running"
    /\ expired = FALSE
    /\ \E n \in 0..MaxRecords : \E a \in [1..n -> CaptureEntries] : captured = <<Arr(a)>>
    /\ stale = 0
    /\ lastCount = 0
    /\ iterations = 0
    /\ count = 0
    /\ events = <<>>
    /\ icsText = <<>>
    /\ primary = NoFile
    /\ jsonDump = NoFile
    /\ lastGood = NoFile
    /\ forwardStepped = FALSE
    /\ backwardStepped = FALSE
    /\ noGain = 0
    /\ lastStep = "none"
    /\ atStart = [primary |-> NoFile, jsonDump |-> NoFile, lastGood |-> NoFile]
    /\ raw = Null
    /\ normOut = [threw |-> FALSE, out |-> <<>>]
    /\ click = NoClick

NextEntries == Derive \/ CloseBrowser \/ SanityCheck

SpecEntries == InitEntries /\ [][NextEntries]_vars

----------------------------------------------------------------------------
(* clickWeekNav, one call taken on its own *)

\* the six selectors of one direction; the keyboard and the offset click follow
NSelectors == 6
KeyboardStrategy == NSelectors + 1
OffsetStrategy == NSelectors + 2

\* const before = await readHeaderText(page): nothing tried yet
ClickStart == [at |-> "start", before |-> <<>>, strategy |-> 1, clicked |-> FALSE,
               read |-> FALSE, after |-> <<>>, afters |-> {}, result |-> FALSE]

InitClick ==
    /\ pc = "clickWeekNav"
    /\ outcome = "running"
    /\ expired = FALSE
    /\ captured = <<>>
    /\ stale = 0
    /\ lastCount = 0
    /\ iterations = 0
    /\ count = 0
    /\ events = <<>>
    /\ icsText = <<>>
    /\ primary = NoFile
    /\ jsonDump = NoFile
    /\ lastGood = NoFile
    /\ forwardStepped = FALSE
    /\ backwardStepped = FALSE
    /\ noGain = 0
    /\ lastStep = "none"
    /\ atStart = [primary |-> NoFile, jsonDump |-> NoFile, lastGood |-> NoFile]
    /\ raw = Null
    /\ normOut = [threw |-> FALSE, out |-> <<>>]
    /\ click = ClickStart

clickFrame == <<pc, outcome, expired, captured, events, icsText, files, navVars,
                atStart, raw, normOut>>

\* the strategy left the label as it was, was not applicable, or threw inside
\* its try: go to the next one, and `return false` after the last
NextStrategy(c) ==
    IF c.strategy = OffsetStrategy
    THEN [c EXCEPT !.at = "done", !.result = FALSE]
    ELSE [c EXCEPT !.strategy = @ + 1]

\* const after = await readHeaderText(page);
\* if (after && after !== before) return true;
JudgeLabel(c, after) ==
    LET seen == [c EXCEPT !.read = TRUE, !.after = after, !.afters = @ \cup {after}]
    IN IF Moved(c.before, after)
       THEN [seen EXCEPT !.at = "done", !.result = TRUE]
       ELSE NextStrategy(seen)

\* const before = await readHeaderText(page);
ReadBefore ==
    /\ pc = "clickWeekNav"
    /\ click.at = "start"
    /\ \E before \in Labels : click' = [click EXCEPT !.at = "strategy", !.before = before]
    /\ UNCHANGED clickFrame

\* Strategy 1, one selector: page.$ finds a control or not; the click's own
\* failure is swallowed; a throw inside the try skips the label read
TrySelector ==
    /\ pc = "clickWeekNav"
    /\ click.at = "strategy"
    /\ click.strategy <= NSelectors
    /\ \E found \in BOOLEAN, clickOk \in BOOLEAN, threw \in BOOLEAN, after \in Labels :
        LET c == [click EXCEPT !.clicked = @ \/ (found /\ clickOk), !.read = FALSE]
        IN click' = IF found /\ ~threw THEN JudgeLabel(c, after) ELSE NextStrategy(c)
    /\ UNCHANGED clickFrame

\* Strategy 2: the key press, which counts only if the label changes
PressKey ==
    /\ pc = "clickWeekNav"
    /\ click.at = "strategy"
    /\ click.strategy = KeyboardStrategy
    /\ \E threw \in BOOLEAN, after \in Labels :
        LET c == [click EXCEPT !.read = FALSE]
        IN click' = IF ~threw THEN JudgeLabel(c, after) ELSE NextStrategy(c)
    /\ UNCHANGED clickFrame

\* Strategy 3: the click near the edge of the header, if it has a bounding box
OffsetClick ==
    /\ pc = "clickWeekNav"
    /\ click.at = "strategy"
    /\ click.strategy = OffsetStrategy
    /\ \E box \in BOOLEAN, threw \in BOOLEAN, after \in Labels :
        LET c == [click EXCEPT !.clicked = @ \/ (box /\ ~threw), !.read = FALSE]
        IN click' = IF box /\ ~threw THEN JudgeLabel(c, after) ELSE NextStrategy(c)
    /\ UNCHANGED clickFrame

NextClickNav == ReadBefore \/ TrySelector \/ PressKey \/ OffsetClick

SpecClick == InitClick /\ [][NextClickNav]_vars

\* C25: clickWeekNav returns true only if the label read after its last action
\* is non-empty and differs from the label read before; when every label read
\* after an action equals the one read before, it returns false, whether or
\* not a control was found and clicked.
C25_MovementIsLabelChange ==
    click.at = "done" =>
        /\ click.result =>
                (click.read /\ click.after # <<>> /\ click.after # click.before)
        /\ (\A a \in click.afters : a = click.before) => ~click.result

\* the call returned false although a control was found, its click succeeded
\* and the label was read after it: the label had not changed
C25_Witness ==
    /\ click.at = "done"
    /\ ~click.result
    /\ click.clicked
    /\ click.before # <<>>
    /\ click.afters = {click.before}

\* the pipeline's coverage test, on the instants of the normalised events
WindowCovered ==
    LET evs == allNormalised
    IN /\ evs # <<>>
       /\ \E i \in 1..Len(evs) : evs[i].start.ts <= windowBounds.start
       /\ \E i \in 1..Len(evs) : evs[i].start.ts >= windowBounds.end - 1
EndCovered ==
    LET evs == allNormalised
    IN /\ evs # <<>>
       /\ \E i \in 1..Len(evs) : evs[i].start.ts >= windowBounds.end - 1

BackwardPcs == {"prev", "prevClick", "prevSettle"}
ForwardPcs == {"next", "nextClick", "nextSettle"}
WithinBudgets == ~expired /\ iterations < MAX_ITER

\* the loop head passes on without a step: the backward one to the forward
\* phase, the forward one to Done, with no capture arriving
HeadSkips ==
    /\ captured' = captured
    /\ pc' = IF pc = "prev" THEN "next" ELSE "derive"

\* C21: when the harvest covers both bounds of the window, a loop head passes
\* on without issuing a navigation step; that is, a loop head does anything
\* else only when the window is not covered.
C21_CoveredSkipsToDone ==
    [][(pc \in {"prev", "next"} /\ ~HeadSkips) => ~WindowCovered]_vars

\* the window was covered after the initial load and the backward phase has
\* ended without a step
C21_Witness ==
    /\ pc = "next"
    /\ iterations = 1
    /\ lastStep = "none"
    /\ ~expired
    /\ WindowCovered

\* C22: with no normalised event at all, within the budgets, the backward
\* loop head requests a backward step and the forward loop head a forward
\* step; that is, a loop head within its budgets does anything else only when
\* there is a normalised event.
C22_EmptyIsNotCovered ==
    [][(/\ pc \in {"prev", "next"}
        /\ WithinBudgets
        /\ pc' # IF pc = "prev" THEN "prevClick" ELSE "nextClick")
            => (allNormalised # <<>>)]_vars

\* a forward step was requested with no event captured, after a backward step
\* that moved and settled
C22_Witness ==
    /\ pc = "nextClick"
    /\ allNormalised = <<>>
    /\ lastStep = "settled"

\* C23: a backward step that reports no movement leads to the forward phase,
\* which never returns to the backward phase and, within the budgets and with
\* the end bound not covered, requests a forward step; a forward step that
\* reports no movement leads to Done.
C23_NoMovementEndsPhase ==
    [][(/\ (pc = "prevClick" /\ pc' # pc /\ lastStep' = "unmoved") => (pc' = "next")
        /\ (pc \in ForwardPcs) => (pc' \notin BackwardPcs)
        /\ (pc = "next" /\ lastStep = "unmoved" /\ WithinBudgets /\ pc' # "nextClick")
             => EndCovered
        /\ (pc = "nextClick" /\ pc' # pc /\ lastStep' = "unmoved") => (pc' = "derive"))]_vars

\* a forward step was requested after a backward step that reported no movement
C23_Witness ==
    /\ pc = "nextClick"
    /\ lastStep = "unmoved"

\* C24: coverage is never evaluated while a step that reported movement has
\* not been followed by a completed settle, and a settle completes only after
\* a step that reported movement.
C24_SettleAfterMovement ==
    /\ [](pc \in {"prev", "next", "derive"} => lastStep # "moved")
    /\ [][(lastStep' = "settled" /\ lastStep # "settled") =>
            (lastStep = "moved" /\ pc \in {"prevSettle", "nextSettle"})]_vars

\* coverage is about to be evaluated in the forward phase after a backward
\* step that moved and was settled
C24_Witness ==
    /\ pc = "next"
    /\ lastStep = "settled"
    /\ ~forwardStepped
    /\ WithinBudgets

\* C34: no backward step is issued once a forward step has been, no state of a
\* phase is entered from a later phase, and none after the final event set
\* has been derived.
C34_PhaseOrder ==
    /\ [](pc \in BackwardPcs => ~forwardStepped)
    /\ [][(/\ (pc \in ForwardPcs) => (pc' \notin BackwardPcs)
           /\ (pc \notin BackwardPcs \cup ForwardPcs \cup {"load"})
                => (pc' \notin BackwardPcs \cup ForwardPcs))]_vars

\* the forward phase has ended in a run that issued a backward step and then
\* a forward step
C34_Witness ==
    /\ pc = "derive"
    /\ backwardStepped
    /\ forwardStepped

\* C26: no navigation or settle operation of the expansion loops ends the run.
C26_NavigationNeverAborts ==
    [][(pc \in (BackwardPcs \cup ForwardPcs)) => (pc' # "end")]_vars

----------------------------------------------------------------------------
(* Normaliser *)

\* C10: every event normaliseFromJSON returns ends after it starts.
C10_EndAfterStart ==
    pc = "normalised" =>
        \A i \in 1..Len(normOut.out) : DtGt(normOut.out[i].end, normOut.out[i].start)

\* the records of the payload under test, its start and end values read off
\* the two keys the payloads under test use
RecordsOf(r) ==
    IF r.t = "arr" THEN r.a
    ELSE IF "events" \in DOMAIN r.f THEN r.f["events"].a
    ELSE r.f["data"].a
RawStart(e) ==
    IF "start" \in DOMAIN e.f THEN e.f["start"]
    ELSE IF "starts_at" \in DOMAIN e.f THEN e.f["starts_at"]
    ELSE Undefined
RawEnd(e) ==
    IF "end" \in DOMAIN e.f THEN e.f["end"]
    ELSE IF "ends_at" \in DOMAIN e.f THEN e.f["ends_at"]
    ELSE Undefined
\* v spells an instant, as ISO text or as epoch time
HasInstant(v) == v.t \in {"iso", "num"}
InstantOf(v) == IF v.t = "iso" THEN v.ts ELSE v.n
\* v is no value: absent, null or the empty string
NoValue(v) == v.t \in {"undef", "null"} \/ v = Str(<<>>)
HasParsableStart(e) == HasInstant(RawStart(e))

C27_SkipIsNotAnError ==
    pc = "normalised" =>
        LET recs == RecordsOf(raw)
            kept == Pick(recs, {i \in 1..Len(recs) : HasParsableStart(recs[i])}, 1)
        IN /\ ~normOut.threw
           /\ Len(normOut.out) = Len(kept)
           /\ \A i \in 1..Len(kept) :
                /\ normOut.out[i].start = At(InstantOf(RawStart(kept[i])))
                /\ <<normOut.out[i]>> = normaliseFromJSON(Arr(<<kept[i]>>), "Europe/London").out

\* the first record of a payload was skipped for its start and the second
\* was normalised
C27_Witness ==
    /\ pc = "normalised"
    /\ Len(RecordsOf(raw)) = 2
    /\ ~HasParsableStart(RecordsOf(raw)[1])
    /\ HasParsableStart(RecordsOf(raw)[2])
    /\ Len(normOut.out) = 1
    /\ ~normOut.threw

\* C19: every event normaliseFromJSON returns has a non-empty title.
C19_TitleNonEmpty ==
    pc = "normalised" => \A i \in 1..Len(normOut.out) : normOut.out[i].title # <<>>

\* C20: normalising the events normaliseFromJSON returned, presented as records
\* under the standard keys, returns the same events.
C20_Idempotent ==
    [][(pc = "normalised" /\ pc' = "renormalised") => normOut'.out = normOut.out]_vars

----------------------------------------------------------------------------
(* Dedupe, window filter, encoder, validator *)

\* the identity triple of an event
Triple(e) == <<e.title, e.start.ts, e.location>>

\* the window test of the data model, on instants
Overlaps(e) ==
    /\ e.start.valid /\ e.start.ts < windowBounds.end
    /\ e.end.valid /\ e.end.ts > windowBounds.start

\* the indices of the first occurrence of every identity triple in xs
FirstOccurrences(xs) ==
    {i \in 1..Len(xs) : \A j \in 1..(i - 1) : Triple(xs[j]) # Triple(xs[i])}

NoTwoAlike(xs) == FirstOccurrences(xs) = 1..Len(xs)

Derived == pc \in {"debug", "sanity", "encode", "validate", "json", "copy", "end"}

SettlePcs == {"prevSettle", "nextSettle"}

\* the settle of a movement completes, with the bookkeeping that follows it
SettleCompletes == pc \in SettlePcs /\ lastStep' = "settled"

\* the number of distinct events among the first n normalised ones; the list
\* only grows at its end, so these are the events a count of n was read from
DistinctAmong(n) ==
    LET evs == allNormalised
    IN Cardinality({Triple(evs[i]) : i \in 1..n})

\* C32: a movement counts as stale when the number of distinct events read
\* before it equals the number read before the previous one: the staleness
\* counter goes up by one, or the phase ends.
C32_StaleCountsDistinct ==
    [][(SettleCompletes /\ DistinctAmong(count) = DistinctAmong(lastCount)) =>
            (\/ stale' = stale + 1
             \/ pc' = IF pc = "prevSettle" THEN "next" ELSE "derive")]_vars

\* C33: a phase ends for staleness only when the movement that just settled
\* completes MAX_STALE consecutive movements of the phase that added no event.
C33_StaleStopOnlyAfterGainless ==
    [][(SettleCompletes /\ StaleAfter >= MAX_STALE) => (NoGainAfter >= MAX_STALE)]_vars

\* C12: the artifact encoded from a deduplicated, window-filtered event set
\* decodes to as many entries passing the validator's window test as the set
\* has events: the validator accepts it.
C12_RoundTripCount ==
    pc = "validate" =>
        /\ IcsWindowCount(icsText) = Len(events)
        /\ ~ValidationFails(icsText, events)

\* the end of the first sub-window
Week1End == windowBounds.start + 7 * Day
SourceWeek1 == Cardinality({i \in 1..Len(events) : events[i].start.ts < Week1End})
SourceWeek2 == Cardinality({i \in 1..Len(events) : events[i].start.ts >= Week1End})
DecodedWeek1 ==
    Cardinality({v \in ParseICS(icsText) : Within(ParsedStart(v)) /\ ParsedStart(v) < Week1End})
DecodedWeek2 ==
    Cardinality({v \in ParseICS(icsText) : Within(ParsedStart(v)) /\ ParsedStart(v) >= Week1End})

\* C13: with expectedCounts configured a run passes validation only if the
\* source and the decoded counts of week 1 and of week 2 equal the configured
\* numbers.
C13_ExpectedSplit ==
    pc = "json" =>
        /\ SourceWeek1 = ExpectedCounts.week1
        /\ SourceWeek2 = ExpectedCounts.week2
        /\ DecodedWeek1 = ExpectedCounts.week1
        /\ DecodedWeek2 = ExpectedCounts.week2

\* C14: of the deduplicated events the window filter keeps, in order, those
\* with start < window.end and end > window.start, and no other.
C14_WindowFilter ==
    Derived =>
        events = SelectSeq(uniqBy(allNormalised, DedupeKeyOf(allNormalised)), Overlaps)

\* the filter ran on an event that ends at the opening instant of the window,
\* one that starts at its closing instant, and one that overlaps its start
C14_Witness ==
    /\ Derived
    /\ \E i, j, k \in 1..Len(allNormalised) :
        /\ allNormalised[i].end.ts = windowBounds.start
        /\ allNormalised[j].start.ts = windowBounds.end
        /\ allNormalised[k].start.ts < windowBounds.start
        /\ allNormalised[k].end.ts > windowBounds.start
    /\ Len(events) = 1

\* C15: the events kept are those of the first occurrences of the identity
\* triples in the input, in order of first occurrence (and inside the window).
C15_OnePerTriple ==
    Derived =>
        events = SelectSeq(Pick(allNormalised, FirstOccurrences(allNormalised), 1), Overlaps)

\* C16: dedup(dedup(xs)) = dedup(xs) and dedup(xs ++ xs) = dedup(xs); when no
\* two events of xs have the same identity triple, dedup(xs) = xs and
\* dedup(xs ++ xs) = xs, so that the run keeps every event of xs in the window.
C16_DedupIdempotent ==
    Derived =>
        LET xs == allNormalised
            dd == uniqBy(xs, DedupeKeyOf(xs))
        IN /\ uniqBy(dd, DedupeKeyOf(dd)) = dd
           /\ uniqBy(xs \o xs, DedupeKeyOf(xs \o xs)) = dd
           /\ NoTwoAlike(xs) =>
                /\ dd = xs
                /\ uniqBy(xs \o xs, DedupeKeyOf(xs \o xs)) = xs
                /\ events = SelectSeq(xs, Overlaps)

\* C17: a single-day all-day event on local calendar date D (local midnight of
\* D to local midnight of D + 1) is encoded with start date D and end date D + 1.
C17_AllDayDates ==
    pc = "validate" =>
        \A i \in 1..Len(events) :
            (/\ events[i].allDay
             /\ (events[i].start.ts + ZoneOffset) % Day = 0
             /\ events[i].end.ts = events[i].start.ts + Day)
            => /\ icsText[i].dateOnly
               /\ icsText[i].start = (events[i].start.ts + ZoneOffset) \div Day
               /\ icsText[i].end = (events[i].start.ts + ZoneOffset) \div Day + 1

\* C37: every record of a capture that has a parsable start has its event in
\* the accumulated event set, whatever else the capture's array holds.
C37_MalformedRemovesOnlyItself ==
    Derived =>
        \A c \in 1..Len(captured) :
            LET arr == PayloadArray(captured[c])
            IN \A i \in 1..Len(arr) :
                (arr[i].t = "obj" /\ ~Skipped(arr[i])) =>
                    \E k \in 1..Len(allNormalised) :
                        allNormalised[k] = NormaliseOne(arr[i], "Europe/London")

\* C38: no capture is appended to the accumulation once the final event set
\* has been derived.
C38_NoCaptureAfterDerive ==
    [][Derived => (captured' = captured)]_vars

\* C35: two events of the final set that differ in title, start instant or
\* location are encoded with different identifiers, and the decoded artifact
\* has one entry per event.
C35_DistinctUids ==
    pc = "validate" =>
        /\ \A i, j \in 1..Len(events) :
                Triple(events[i]) # Triple(events[j]) => icsText[i].uid # icsText[j].uid
        /\ Cardinality(ParseICS(icsText)) = Len(events)

\* C36: every all-day event is encoded with an end date later than its start
\* date.
C36_AllDayEndsLater ==
    pc = "validate" =>
        \A i \in 1..Len(icsText) : icsText[i].dateOnly => icsText[i].end > icsText[i].start

\* C39: two normalised events have the same deduplication key only if they
\* have the same title, start instant and location.
C39_KeyInjective ==
    Derived =>
        \A i, j \in 1..Len(allNormalised) :
            DedupeKey(allNormalised[i]) = DedupeKey(allNormalised[j])
                => Triple(allNormalised[i]) = Triple(allNormalised[j])

\* C18: the identifier encoded for an event is a function of its start instant
\* and its title slug only: events with the same start and the same title, or
\* titles of the same slug, get the same identifier, whatever their position,
\* end, location or description.
C18_UidFromStartAndSlug ==
    pc = "validate" =>
        /\ Len(icsText) = Len(events)
        /\ \A i, j \in 1..Len(events) :
            (/\ events[i].start = events[j].start
             /\ \/ events[i].title = events[j].title
                \/ Slug(events[i].title) = Slug(events[j].title))
            => icsText[i].uid = icsText[j].uid

\* two events with the same title and start and different locations were encoded
C18_Witness ==
    /\ pc = "validate"
    /\ \E i, j \in 1..Len(events) :
        /\ i < j
        /\ events[i].title = events[j].title
        /\ events[i].start = events[j].start
        /\ events[i].location # events[j].location
        /\ icsText[i].uid = icsText[j].uid

====
